---- MODULE Spec2Model ----
(***************************************************************************)
(* Model of the request handlers of users/views.py (academic portal):      *)
(* admin user create/update with role-conditioned profiles, professor      *)
(* assignment to subjects and finals, student inscription to subjects and  *)
(* finals, the student dashboard, the professor's grade roster (backfill)   *)
(* and grade edit, and the student file service with its two views.        *)
(* Handlers run to their response in one step; the professor assignment,   *)
(* the inscription and the roster are also modelled statement by           *)
(* statement, for requests served at the same time.                        *)
(*                                                                         *)
(* The store is the database.  Tables whose rows the handlers create with  *)
(* get_or_create / bulk_create are kept as row counts or row sequences, so *)
(* that a duplicate row is a state the model can express.                  *)
(***************************************************************************)
EXTENDS Integers, Sequences, FiniteSets, TLC

\* ---------------------------------------------------------------- bounds
NumUsers == 4
NumCareers == 2
NumSubjects == 2
NumFinals == 2
MaxAccounts == 2

Users == 1..NumUsers
Careers == 1..NumCareers
Subjects == 1..NumSubjects
Finals == 1..NumFinals

\* Codes and ids a URL can carry: 0 names no row of the table.
SubjectCodes == 0..NumSubjects
FinalIds == 0..NumFinals

\* Subject.career and FinalExam.subject (static catalogue rows).
SubjectCareer(m) == ((m - 1) % NumCareers) + 1
FinalSubject(f) == ((f - 1) % NumSubjects) + 1

NoCareer == 0

\* Faculty rows, and Career.faculty when it names none.
Faculties == {1}
NoFaculty == 0

\* Student.enrollment_date: a date as (year, month, day), or none.
Dates == {<<2024, 3, 1>>}
NoDate == <<>>

Roles == {"ADMIN", "STUDENT", "PROFESSOR"}
NoUser == "NONE"
Kinds == {"Student", "Professor", "Administrator"}

\* Grade.status: unset, REGULAR, or another state.
Unset == "UNSET"
Regular == "REGULAR"
Statuses == {Unset, Regular, "FREE"}
Scores == {"low", "high"}
Methods == {"GET", "POST"}

VARIABLES
    role,               \* CustomUser.role per user id; NoUser: no such row
    profiles,           \* rows of Student/Professor/Administrator per user
    career,             \* Student.career of the user's Student row
    enrollment_date,    \* Student.enrollment_date of the user's Student row
    faculty,            \* Career.faculty per career
    requests,           \* requests being served step by step, per worker
    inscriptions,       \* SubjectInscription rows per (student, subject)
    grades,             \* Grade rows per (student, subject), ascending id
    finalInscriptions,  \* FinalExamInscription rows per (student, final)
    subjectProfessors,  \* Subject.professors (pks)
    finalProfessors,    \* FinalExam.professors (pks)
    response            \* what the last request did and answered

vars == <<role, profiles, career, enrollment_date, faculty, requests, inscriptions, grades, finalInscriptions,
          subjectProfessors, finalProfessors, response>>

userVars == <<role, profiles, career, enrollment_date, faculty, requests>>
enrollVars == <<inscriptions, grades, finalInscriptions>>
assignVars == <<subjectProfessors, finalProfessors>>

\* A response: the handler, its outcome, the requesting user, the URL
\* argument once the handler has looked it up (0 before); for grade_edit the grade's student, its row among
\* the pair's rows and the submitted status; the students a backfill created
\* rows for; how many times update_status ran; for a professor assignment
\* the professors the form asked for; for a student file what the service
\* handed to the view, for the dashboard its eligible_finals.
Resp(op, outcome, who, what) ==
    [op |-> op, outcome |-> outcome, who |-> who, what |-> what,
     student |-> 0, row |-> 0, status |-> "", created |-> {}, recomputed |-> 0,
     requested |-> {}, data |-> <<>>]

NoResponse == Resp("none", "none", 0, 0)

\* The workers that serve requests at the same time, and what a worker
\* holds of its request between two steps: the handler, the line it has
\* reached, the user, the looked-up URL argument and the handler's locals.
Workers == {1, 2}
Req(op, pc, who, what) ==
    [op |-> op, pc |-> pc, who |-> who, what |-> what,
     requested |-> {}, current |-> {}, missing |-> {}, created |-> FALSE]
NoRequest == Req("none", "idle", 0, 0)
NoRequests == [w \in Workers |-> NoRequest]

\* ------------------------------------------------------------- helpers

\* getattr(user, "student", None) and friends: the reverse one-to-one.
HasProfile(u, k) == profiles[u][k] > 0

\* user_passes_test(is_student) / (is_professor)
is_student(u) == role[u] = "STUDENT"
is_professor(u) == role[u] = "PROFESSOR"

KindOf(r) ==
    CASE r = "STUDENT" -> "Student"
      [] r = "PROFESSOR" -> "Professor"
      [] r = "ADMIN" -> "Administrator"

\* Subject.objects.filter(code=code, career=c): the subject or none (0).
SubjectInCareerBug(code, c) == IF code \in Subjects THEN code ELSE 0
SubjectInCareer(code, c) ==
    IF code \in Subjects /\ c # NoCareer /\ SubjectCareer(code) = c THEN code ELSE 0

\* FinalExam.objects.filter(pk=id, subject__career=c)
FinalInCareer(id, c) ==
    IF id \in Finals /\ c # NoCareer /\ SubjectCareer(FinalSubject(id)) = c THEN id ELSE 0

\* Grade.objects.filter(student, subject).order_by("-id").first()
LatestGrade(s, m) ==
    IF Len(grades[s][m]) = 0 THEN [score |-> "low", status |-> "ABSENT"]
    ELSE grades[s][m][Len(grades[s][m])]

NewGrade == [score |-> "low", status |-> Unset]

\* Model.objects.get_or_create on a table kept as a row count.
GetOrCreateCountBug(n) == n + 1
GetOrCreateCount(n) == IF n = 0 THEN 1 ELSE n

\* Grade.objects.get_or_create(student, subject) on the pair's rows.
GetOrCreateGrade(rows) == IF Len(rows) = 0 THEN <<NewGrade>> ELSE rows

\* ------------------------------------------------- student: inscriptions

\* The state a Django deployment is in once the admin (user NumUsers) has
\* created a professor (user 1, assigned to the first subject) and
\* students (the users between, two per career in career order), before any
\* inscription.
InitRole(u) ==
    IF u = 1 THEN "PROFESSOR" ELSE IF u = NumUsers THEN "ADMIN" ELSE "STUDENT"

InitCareer(u) ==
    IF InitRole(u) # "STUDENT" THEN NoCareer
    ELSE IF ((u - 2) \div 2) + 1 \in Careers THEN ((u - 2) \div 2) + 1 ELSE NoCareer

\* Students enrolled on a date, every career under the faculty.
InitDate(u) == IF InitRole(u) = "STUDENT" THEN <<2024, 3, 1>> ELSE NoDate
InitFaculty == [c \in Careers |-> 1]

InitEnroll ==
    /\ role = [u \in Users |-> InitRole(u)]
    /\ profiles = [u \in Users |-> [k \in Kinds |->
                     IF k = KindOf(InitRole(u)) THEN 1 ELSE 0]]
    /\ career = [u \in Users |-> InitCareer(u)]
    /\ enrollment_date = [u \in Users |-> InitDate(u)]
    /\ faculty = InitFaculty
    /\ requests = NoRequests
    /\ inscriptions = [s \in Users |-> [m \in Subjects |-> 0]]
    /\ grades = [s \in Users |-> [m \in Subjects |-> <<>>]]
    /\ finalInscriptions = [s \in Users |-> [f \in Finals |-> 0]]
    /\ subjectProfessors = [m \in Subjects |-> IF m = 1 THEN {1} ELSE {}]
    /\ finalProfessors = [f \in Finals |-> {}]
    /\ response = NoResponse

\* subject_inscribe, lines 420-421: request.user.student, then the subject
\* looked up by code inside the student's career.  "" when the request goes on.
StudentGate(u) ==
    IF ~is_student(u) THEN "login_redirect"
    ELSE IF ~HasProfile(u, "Student") THEN "error"
    ELSE ""

\* subject_inscribe(request, subject_code)
SubjectInscribe(u, code, method) ==
    LET gate == StudentGate(u)
        m == SubjectInCareer(code, career[u])
    IN  IF gate # "" THEN
            /\ response' = Resp("subject_inscribe", gate, u, 0)
            /\ UNCHANGED <<userVars, enrollVars, assignVars>>
        ELSE IF m = 0 THEN
            /\ response' = Resp("subject_inscribe", "NotFound", u, code)
            /\ UNCHANGED <<userVars, enrollVars, assignVars>>
        ELSE IF method = "POST" THEN
            /\ inscriptions' = [inscriptions EXCEPT ![u][m] = GetOrCreateCount(@)]
            /\ grades' = [grades EXCEPT ![u][m] = GetOrCreateGrade(@)]
            /\ response' = Resp("subject_inscribe",
                                IF inscriptions[u][m] = 0 THEN "created" ELSE "already",
                                u, code)
            /\ UNCHANGED <<userVars, finalInscriptions, assignVars>>
        ELSE
            /\ response' = Resp("subject_inscribe", "confirm_page", u, code)
            /\ UNCHANGED <<userVars, enrollVars, assignVars>>

\* subject_inscribe whose request ends between its two writes (lines 424 and
\* 425 run in autocommit, outside any transaction.atomic): the
\* SubjectInscription row is committed, Grade.get_or_create raises or the
\* worker stops, and the request answers with a server error.
SubjectInscribeInterrupted(u, code) ==
    LET m == SubjectInCareer(code, career[u])
    IN  /\ StudentGate(u) = ""
        /\ m # 0
        /\ inscriptions' = [inscriptions EXCEPT ![u][m] = GetOrCreateCount(@)]
        /\ response' = Resp("subject_inscribe", "error", u, code)
        /\ UNCHANGED <<userVars, grades, finalInscriptions, assignVars>>

\* final_exam_inscribe, line 443: the eligibility test on the latest grade.
EligibleBug(g) == g.status # "ABSENT"
Eligible(g) == g.status \in {Regular}

\* final_exam_inscribe(request, final_exam_id)
FinalExamInscribe(u, id, method) ==
    LET gate == StudentGate(u)
        f == FinalInCareer(id, career[u])
    IN  IF gate # "" THEN
            /\ response' = Resp("final_exam_inscribe", gate, u, 0)
            /\ UNCHANGED <<userVars, enrollVars, assignVars>>
        ELSE IF f = 0 THEN
            /\ response' = Resp("final_exam_inscribe", "NotFound", u, id)
            /\ UNCHANGED <<userVars, enrollVars, assignVars>>
        ELSE IF ~Eligible(LatestGrade(u, FinalSubject(f))) THEN
            /\ response' = Resp("final_exam_inscribe", "IneligibleState", u, id)
            /\ UNCHANGED <<userVars, enrollVars, assignVars>>
        ELSE IF method = "POST" THEN
            /\ finalInscriptions' = [finalInscriptions EXCEPT ![u][f] = GetOrCreateCount(@)]
            /\ response' = Resp("final_exam_inscribe", "inscribed", u, id)
            /\ UNCHANGED <<userVars, inscriptions, grades, assignVars>>
        ELSE
            /\ response' = Resp("final_exam_inscribe", "confirm_page", u, id)
            /\ UNCHANGED <<userVars, enrollVars, assignVars>>

\* student_dashboard, lines 390-395: the subjects with a REGULAR Grade of the
\* student, and the finals of those subjects.
eligible_subject_ids(u) ==
    {m \in Subjects : \E i \in 1..Len(grades[u][m]) : grades[u][m][i].status = Regular}
eligible_finals(u) == {f \in Finals : FinalSubject(f) \in eligible_subject_ids(u)}

\* student_dashboard(request)
StudentDashboard(u) ==
    /\ response' =
         IF ~is_student(u) THEN Resp("student_dashboard", "login_redirect", u, 0)
         ELSE IF ~HasProfile(u, "Student") THEN Resp("student_dashboard", "error", u, 0)
         ELSE [Resp("student_dashboard", "dashboard", u, 0)
                 EXCEPT !.data = eligible_finals(u)]
    /\ UNCHANGED <<userVars, enrollVars, assignVars>>

\* final_exam_inscribe, lines 441-445: the request gets past NotFound and
\* IneligibleState.
FinalAccepted(u, id) ==
    /\ FinalInCareer(id, career[u]) # 0
    /\ Eligible(LatestGrade(u, FinalSubject(FinalInCareer(id, career[u]))))

\* ---------------------------------------------------- professor: grades

\* request.user.professor behind user_passes_test(is_professor)
ProfessorGate(p) ==
    IF ~is_professor(p) THEN "login_redirect"
    ELSE IF ~HasProfile(p, "Professor") THEN "error"
    ELSE ""

\* grade_list, lines 540-542: the students inscribed in the subject that
\* have no Grade row for it.
MissingIdsBug(m) == {s \in Users : inscriptions[s][m] > 0}
MissingIds(m) ==
    {s \in Users : inscriptions[s][m] > 0} \ {s \in Users : Len(grades[s][m]) > 0}

\* grade_list(request, subject_code): the backfill runs on every request
\* that finds the subject among the professor's subjects.
GradeList(p, code) ==
    LET gate == ProfessorGate(p)
    IN  IF gate # "" THEN
            /\ response' = Resp("grade_list", gate, p, 0)
            /\ UNCHANGED <<userVars, enrollVars, assignVars>>
        ELSE IF ~(code \in Subjects /\ p \in subjectProfessors[code]) THEN
            /\ response' = Resp("grade_list", "NotFound", p, code)
            /\ UNCHANGED <<userVars, enrollVars, assignVars>>
        ELSE
            /\ grades' = [s \in Users |-> [m \in Subjects |->
                            IF m = code /\ s \in MissingIds(code)
                            THEN Append(grades[s][m], NewGrade)
                            ELSE grades[s][m]]]
            /\ response' = [Resp("grade_list", "listed", p, code)
                                EXCEPT !.created = MissingIds(code)]
            /\ UNCHANGED <<userVars, inscriptions, finalInscriptions, assignVars>>

\* grade_edit, line 571: "status" in form.changed_data, the submitted status
\* against the instance's.
StatusWasChangedBug(g, newStatus) == FALSE
StatusWasChanged(g, newStatus) == newStatus # g.status

\* grade_edit, line 564: SubjectInscription.objects.filter(student=
\* grade.student, subject=grade.subject).exists()
InscriptionExistsBug(s, m) == TRUE
InscriptionExists(s, m) == inscriptions[s][m] > 0

\* grade_edit(request, pk): pk names row i of the rows of (s, m), or no row.
\* recomputed is a status update_status may leave (the rule lives in the
\* Grade model).
GradeEdit(p, s, m, i, method, valid, newScore, newStatus, recomputed) ==
    LET gate == ProfessorGate(p)
        r == [Resp("grade_edit", "", p, m) EXCEPT !.student = s, !.row = i]
    IN  IF ~is_professor(p) THEN
            /\ response' = Resp("grade_edit", "login_redirect", p, 0)
            /\ UNCHANGED <<userVars, enrollVars, assignVars>>
        ELSE IF i > Len(grades[s][m]) THEN
            /\ response' = Resp("grade_edit", "NotFound", p, 0)
            /\ UNCHANGED <<userVars, enrollVars, assignVars>>
        ELSE IF gate # "" THEN
            /\ response' = Resp("grade_edit", gate, p, 0)
            /\ UNCHANGED <<userVars, enrollVars, assignVars>>
        ELSE IF p \notin subjectProfessors[m] THEN
            /\ response' = [r EXCEPT !.outcome = "not_assigned"]
            /\ UNCHANGED <<userVars, enrollVars, assignVars>>
        ELSE IF ~InscriptionExists(s, m) THEN
            /\ response' = [r EXCEPT !.outcome = "not_inscribed"]
            /\ UNCHANGED <<userVars, enrollVars, assignVars>>
        ELSE IF method = "POST" /\ valid THEN
            LET status_was_changed == StatusWasChanged(grades[s][m][i], newStatus)
                saved == [score |-> newScore, status |-> newStatus]
            IN  /\ grades' = [grades EXCEPT ![s][m][i] =
                                IF status_was_changed THEN saved
                                ELSE [saved EXCEPT !.status = recomputed]]
                /\ response' = [r EXCEPT !.outcome = "saved", !.status = newStatus,
                                         !.recomputed = IF status_was_changed THEN 0 ELSE 1]
                /\ UNCHANGED <<userVars, inscriptions, finalInscriptions, assignVars>>
        ELSE
            /\ response' = [r EXCEPT !.outcome = "form_page"]
            /\ UNCHANGED <<userVars, enrollVars, assignVars>>

\* ------------------------------------- inscription and roster, step by step

\* subject_inscribe up to line 424 on worker w: the gate, the subject lookup
\* and SubjectInscription.objects.get_or_create.
InscribeBegin(w, u, code, method) ==
    LET gate == StudentGate(u)
        m == SubjectInCareer(code, career[u])
    IN  /\ requests[w].pc = "idle"
        /\ IF gate # "" THEN
               /\ response' = Resp("subject_inscribe", gate, u, 0)
               /\ UNCHANGED <<requests, inscriptions>>
           ELSE IF m = 0 THEN
               /\ response' = Resp("subject_inscribe", "NotFound", u, code)
               /\ UNCHANGED <<requests, inscriptions>>
           ELSE IF method # "POST" THEN
               /\ response' = Resp("subject_inscribe", "confirm_page", u, code)
               /\ UNCHANGED <<requests, inscriptions>>
           ELSE
               /\ inscriptions' = [inscriptions EXCEPT ![u][m] = GetOrCreateCount(@)]
               /\ requests' = [requests EXCEPT ![w] =
                                 [Req("subject_inscribe", "inscribed", u, m)
                                    EXCEPT !.created = (inscriptions[u][m] = 0)]]
               /\ UNCHANGED response
        /\ UNCHANGED <<role, profiles, career, enrollment_date, faculty,
                       grades, finalInscriptions, assignVars>>

\* Line 425, first half: the get() of Grade.objects.get_or_create.  One row
\* ends the request, no row goes on to create(), several rows raise
\* MultipleObjectsReturned.
GradeLookup(w) ==
    LET r == requests[w]
        rows == Len(grades[r.who][r.what])
    IN  /\ r.op = "subject_inscribe"
        /\ r.pc = "inscribed"
        /\ IF rows = 0 THEN
               /\ requests' = [requests EXCEPT ![w].pc = "creating"]
               /\ UNCHANGED response
           ELSE
               /\ requests' = [requests EXCEPT ![w] = NoRequest]
               /\ response' = Resp("subject_inscribe",
                                   IF rows > 1 THEN "server_error"
                                   ELSE IF r.created THEN "created" ELSE "already",
                                   r.who, r.what)
        /\ UNCHANGED <<role, profiles, career, enrollment_date, faculty,
                       enrollVars, assignVars>>

\* Line 425, second half: the create() of get_or_create, then lines 426-430.
GradeCreate(w) ==
    LET r == requests[w]
    IN  /\ r.op = "subject_inscribe"
        /\ r.pc = "creating"
        /\ grades' = [grades EXCEPT ![r.who][r.what] = Append(@, NewGrade)]
        /\ requests' = [requests EXCEPT ![w] = NoRequest]
        /\ response' = Resp("subject_inscribe",
                            IF r.created THEN "created" ELSE "already",
                            r.who, r.what)
        /\ UNCHANGED <<role, profiles, career, enrollment_date, faculty,
                       inscriptions, finalInscriptions, assignVars>>

\* grade_list up to line 542 on worker w: the gate, the subject lookup and
\* the two reads that give missing_ids.  With nothing missing the request
\* goes on to the listing.
GradeListRead(w, p, code) ==
    LET gate == ProfessorGate(p)
    IN  /\ requests[w].pc = "idle"
        /\ IF gate # "" THEN
               /\ response' = Resp("grade_list", gate, p, 0)
               /\ UNCHANGED requests
           ELSE IF ~(code \in Subjects /\ p \in subjectProfessors[code]) THEN
               /\ response' = Resp("grade_list", "NotFound", p, code)
               /\ UNCHANGED requests
           ELSE IF MissingIds(code) = {} THEN
               /\ response' = Resp("grade_list", "listed", p, code)
               /\ UNCHANGED requests
           ELSE
               /\ requests' = [requests EXCEPT ![w] =
                                 [Req("grade_list", "missing", p, code)
                                    EXCEPT !.missing = MissingIds(code)]]
               /\ UNCHANGED response
        /\ UNCHANGED <<role, profiles, career, enrollment_date, faculty,
                       enrollVars, assignVars>>

\* Lines 543-551: bulk_create of one Grade per id of the missing_ids the
\* request computed, then the listing.
GradeListCreate(w) ==
    LET r == requests[w]
    IN  /\ r.op = "grade_list"
        /\ r.pc = "missing"
        /\ grades' = [s \in Users |-> [m \in Subjects |->
                        IF m = r.what /\ s \in r.missing
                        THEN Append(grades[s][m], NewGrade)
                        ELSE grades[s][m]]]
        /\ requests' = [requests EXCEPT ![w] = NoRequest]
        /\ response' = [Resp("grade_list", "listed", r.who, r.what)
                            EXCEPT !.created = r.missing]
        /\ UNCHANGED <<role, profiles, career, enrollment_date, faculty,
                       inscriptions, finalInscriptions, assignVars>>

\* ------------------------------------------- admin: professor assignment

\* Python values as the views hold them: request.POST.getlist yields strings,
\* values_list("pk", flat=True) yields integers, and "2" == 2 is False.
PyStr(n) == [type |-> "str", digits |-> n]
PyInt(n) == [type |-> "int", digits |-> n]

\* The pk field's get_prep_value, applied by the related manager's add().
get_prep_value(x) == x.digits

\* The Professor rows the assignment form offers (Professor.objects.all()).
ProfessorPks == {p \in Users : HasProfile(p, "Professor")}

\* lines 291-295 (and 348-352): the two sets and their differences.
selected_ids(requested) == {PyStr(p) : p \in requested}
current_ids(current) == {PyInt(p) : p \in current}
to_add(requested, current) == selected_ids(requested) \ current_ids(current)
to_remove(requested, current) == current_ids(current) \ selected_ids(requested)

\* lines 298-302 (and 355-359): professors.add(*to_add) inserts the rows
\* that are not there yet, then professors.remove(*to_remove) deletes.
AfterSync(requested, current) ==
    (current \cup {get_prep_value(x) : x \in to_add(requested, current)})
        \ {x.digits : x \in to_remove(requested, current)}

SyncOutcome(requested, current) ==
    IF to_add(requested, current) # {} \/ to_remove(requested, current) # {}
    THEN "updated" ELSE "no_changes"

\* user_passes_test(is_admin)
is_admin(u) == role[u] = "ADMIN"

\* assign_subject_professors(request, code)
AssignSubjectProfessors(a, code, requested, method) ==
    LET r == [Resp("assign_subject_professors", "", a, code) EXCEPT !.requested = requested]
    IN  IF ~is_admin(a) THEN
            /\ response' = [r EXCEPT !.outcome = "login_redirect"]
            /\ UNCHANGED <<userVars, enrollVars, assignVars>>
        ELSE IF code \notin Subjects THEN
            /\ response' = [r EXCEPT !.outcome = "NotFound"]
            /\ UNCHANGED <<userVars, enrollVars, assignVars>>
        ELSE IF method = "POST" THEN
            /\ subjectProfessors' = [subjectProfessors EXCEPT
                                       ![code] = AfterSync(requested, @)]
            /\ response' = [r EXCEPT !.outcome =
                                       SyncOutcome(requested, subjectProfessors[code])]
            /\ UNCHANGED <<userVars, enrollVars, finalProfessors>>
        ELSE
            /\ response' = [r EXCEPT !.outcome = "form_page"]
            /\ UNCHANGED <<userVars, enrollVars, assignVars>>

\* assign_final_professors(request, pk)
AssignFinalProfessors(a, pk, requested, method) ==
    LET r == [Resp("assign_final_professors", "", a, pk) EXCEPT !.requested = requested]
    IN  IF ~is_admin(a) THEN
            /\ response' = [r EXCEPT !.outcome = "login_redirect"]
            /\ UNCHANGED <<userVars, enrollVars, assignVars>>
        ELSE IF pk \notin Finals THEN
            /\ response' = [r EXCEPT !.outcome = "NotFound"]
            /\ UNCHANGED <<userVars, enrollVars, assignVars>>
        ELSE IF method = "POST" THEN
            /\ finalProfessors' = [finalProfessors EXCEPT
                                     ![pk] = AfterSync(requested, @)]
            /\ response' = [r EXCEPT !.outcome =
                                       SyncOutcome(requested, finalProfessors[pk])]
            /\ UNCHANGED <<userVars, enrollVars, subjectProfessors>>
        ELSE
            /\ response' = [r EXCEPT !.outcome = "form_page"]
            /\ UNCHANGED <<userVars, enrollVars, assignVars>>

\* The deployment once the admin (user 1) has created the other users as
\* professors, before any assignment.
InitAssign ==
    /\ role = [u \in Users |-> IF u = 1 THEN "ADMIN" ELSE "PROFESSOR"]
    /\ profiles = [u \in Users |-> [k \in Kinds |->
                     IF k = (IF u = 1 THEN "Administrator" ELSE "Professor")
                     THEN 1 ELSE 0]]
    /\ career = [u \in Users |-> NoCareer]
    /\ enrollment_date = [u \in Users |-> NoDate]
    /\ faculty = InitFaculty
    /\ requests = NoRequests
    /\ inscriptions = [s \in Users |-> [m \in Subjects |-> 0]]
    /\ grades = [s \in Users |-> [m \in Subjects |-> <<>>]]
    /\ finalInscriptions = [s \in Users |-> [f \in Finals |-> 0]]
    /\ subjectProfessors = [m \in Subjects |-> {}]
    /\ finalProfessors = [f \in Finals |-> {}]
    /\ response = NoResponse

\* The fields a request carries matter only past the gate and, for the
\* requested set, on POST.
NextAssign ==
    \/ \E a \in Users, code \in SubjectCodes, method \in Methods :
         \E requested \in (IF is_admin(a) /\ method = "POST"
                           THEN SUBSET ProfessorPks ELSE {{}}) :
           AssignSubjectProfessors(a, code, requested, method)
    \/ \E a \in Users, pk \in FinalIds, method \in Methods :
         \E requested \in (IF is_admin(a) /\ method = "POST"
                           THEN SUBSET ProfessorPks ELSE {{}}) :
           AssignFinalProfessors(a, pk, requested, method)

SpecAssign == InitAssign /\ [][NextAssign]_vars

\* --------------------------- admin: professor assignment, step by step

\* professors.add(*to_add) then professors.remove(*to_remove) on the rows as
\* they stand when the atomic block runs, with to_add and to_remove computed
\* from the set the request read before the block (lines 292-295).
SyncOnto(rows, requested, snapshot) ==
    (rows \cup {get_prep_value(x) : x \in to_add(requested, snapshot)})
        \ {x.digits : x \in to_remove(requested, snapshot)}

\* The set a request is about: subject.professors or final.professors.
AssignOps == {"assign_subject_professors", "assign_final_professors"}
AssignTargets(op) == IF op = "assign_subject_professors" THEN Subjects ELSE Finals
AssignedTo(op, id) ==
    IF op = "assign_subject_professors" THEN subjectProfessors[id]
    ELSE finalProfessors[id]

\* Lines 289-295 (346-352) of worker w's request: the gate, the lookup and
\* the read of the current set, outside any transaction.  With nothing to add
\* or remove the request ends here (lines 304-306).
AssignRead(w, op, a, id, requested, method) ==
    LET r == [Req(op, "read", a, id) EXCEPT !.requested = requested,
                                           !.current = AssignedTo(op, id)]
    IN  /\ requests[w].pc = "idle"
        /\ IF ~is_admin(a) THEN
               /\ response' = Resp(op, "login_redirect", a, 0)
               /\ UNCHANGED requests
           ELSE IF id \notin AssignTargets(op) THEN
               /\ response' = Resp(op, "NotFound", a, id)
               /\ UNCHANGED requests
           ELSE IF method # "POST" THEN
               /\ response' = Resp(op, "form_page", a, id)
               /\ UNCHANGED requests
           ELSE IF SyncOutcome(requested, AssignedTo(op, id)) = "no_changes" THEN
               /\ response' = Resp(op, "no_changes", a, id)
               /\ requests' = [requests EXCEPT ![w] = [r EXCEPT !.pc = "done"]]
           ELSE
               /\ requests' = [requests EXCEPT ![w] = r]
               /\ UNCHANGED response
        /\ UNCHANGED <<role, profiles, career, enrollment_date, faculty,
                       enrollVars, assignVars>>

\* Lines 297-303 (354-360) of worker w's request: the atomic block, add then
\* remove, committed as one.
AssignWrite(w) ==
    LET r == requests[w]
        rows == SyncOnto(AssignedTo(r.op, r.what), r.requested, r.current)
    IN  /\ r.pc = "read"
        /\ r.op \in AssignOps
        /\ IF r.op = "assign_subject_professors"
           THEN /\ subjectProfessors' = [subjectProfessors EXCEPT ![r.what] = rows]
                /\ UNCHANGED finalProfessors
           ELSE /\ finalProfessors' = [finalProfessors EXCEPT ![r.what] = rows]
                /\ UNCHANGED subjectProfessors
        /\ requests' = [requests EXCEPT ![w].pc = "done"]
        /\ response' = Resp(r.op, "updated", r.who, r.what)
        /\ UNCHANGED <<role, profiles, career, enrollment_date, faculty, enrollVars>>

\* An admin (user 1), professors and one other user; every subject and final
\* with the same professors assigned, any of them.
RaceRole(u) ==
    IF u = 1 THEN "ADMIN" ELSE IF u = NumUsers THEN "STUDENT" ELSE "PROFESSOR"

InitAssignRace ==
    /\ role = [u \in Users |-> RaceRole(u)]
    /\ profiles = [u \in Users |-> [k \in Kinds |->
                     IF k = KindOf(RaceRole(u)) THEN 1 ELSE 0]]
    /\ career = [u \in Users |-> NoCareer]
    /\ enrollment_date = [u \in Users |-> NoDate]
    /\ faculty = InitFaculty
    /\ requests = NoRequests
    /\ inscriptions = [s \in Users |-> [m \in Subjects |-> 0]]
    /\ grades = [s \in Users |-> [m \in Subjects |-> <<>>]]
    /\ finalInscriptions = [s \in Users |-> [f \in Finals |-> 0]]
    /\ \E assigned \in SUBSET {u \in Users : RaceRole(u) = "PROFESSOR"} :
         /\ subjectProfessors = [m \in Subjects |-> assigned]
         /\ finalProfessors = [f \in Finals |-> assigned]
    /\ response = NoResponse

\* Two assignment requests, each served once, worker 1 taking the request
\* that arrives first.  A request that stops at the gate is drawn once per
\* user.
NextAssignRace ==
    \/ \E w \in Workers, op \in AssignOps, a \in Users :
         \E id \in (IF ~is_admin(a) THEN {0}
                    ELSE IF op = "assign_subject_professors" THEN SubjectCodes
                    ELSE FinalIds),
            method \in (IF is_admin(a) THEN Methods ELSE {"GET"}) :
           \E requested \in (IF is_admin(a) /\ method = "POST"
                             THEN SUBSET ProfessorPks ELSE {{}}) :
             /\ \A v \in Workers : v < w => requests[v].pc # "idle"
             /\ AssignRead(w, op, a, id, requested, method)
    \/ \E w \in Workers : AssignWrite(w)

SpecAssignRace == InitAssignRace /\ [][NextAssignRace]_vars

\* ------------------------------------------------ admin: users, profiles

NoProfiles == [k \in Kinds |-> 0]

\* UserUpdateView.form_valid, lines 149-155: on a role change every profile
\* row of the user is deleted (each delete is committed as it runs).
ProfilesAfterRoleCheckBug(u, r) == profiles
ProfilesAfterRoleCheck(u, r) ==
    IF r # role[u] THEN [profiles EXCEPT ![u] = NoProfiles] ELSE profiles

\* The rows that go with a deleted Student (its inscriptions and grades) and
\* with a deleted Professor (its assignments).
StudentDeleted(u, r) == r # role[u] /\ HasProfile(u, "Student")
ProfessorDeleted(u, r) == r # role[u] /\ HasProfile(u, "Professor")

CascadeDeletes(u, r) ==
    /\ inscriptions' = IF StudentDeleted(u, r)
                       THEN [inscriptions EXCEPT ![u] = [m \in Subjects |-> 0]]
                       ELSE inscriptions
    /\ grades' = IF StudentDeleted(u, r)
                 THEN [grades EXCEPT ![u] = [m \in Subjects |-> <<>>]]
                 ELSE grades
    /\ finalInscriptions' = IF StudentDeleted(u, r)
                            THEN [finalInscriptions EXCEPT ![u] = [f \in Finals |-> 0]]
                            ELSE finalInscriptions
    /\ subjectProfessors' = IF ProfessorDeleted(u, r)
                            THEN [m \in Subjects |-> subjectProfessors[m] \ {u}]
                            ELSE subjectProfessors
    /\ finalProfessors' = IF ProfessorDeleted(u, r)
                          THEN [f \in Finals |-> finalProfessors[f] \ {u}]
                          ELSE finalProfessors

\* The next CustomUser pk: users are never deleted here, so pks are 1, 2, ...
NextUserPk == Cardinality({u \in Users : role[u] # NoUser}) + 1

\* UserCreateView.form_valid: valid is profile_form.is_valid(), c the career
\* and d the enrollment date the student profile form names.
UserCreate(a, r, valid, c, d) ==
    LET u == NextUserPk
    IN  IF ~is_admin(a) THEN
            /\ response' = Resp("user_create", "login_redirect", a, 0)
            /\ UNCHANGED <<userVars, enrollVars, assignVars>>
        ELSE IF valid THEN
            /\ role' = [role EXCEPT ![u] = r]
            /\ profiles' = [profiles EXCEPT ![u][KindOf(r)] = @ + 1]
            /\ career' = [career EXCEPT ![u] = IF r = "STUDENT" THEN c ELSE NoCareer]
            /\ enrollment_date' = [enrollment_date EXCEPT
                                     ![u] = IF r = "STUDENT" THEN d ELSE NoDate]
            /\ response' = [Resp("user_create", "created", a, u) EXCEPT !.status = r]
            /\ UNCHANGED <<faculty, requests, enrollVars, assignVars>>
        ELSE
            /\ response' = Resp("user_create", "form_invalid", a, 0)
            /\ UNCHANGED <<userVars, enrollVars, assignVars>>

\* UserUpdateView.form_valid.  The profile form is built without an instance
\* (lines 161-166), so a valid form always inserts a row: when the user still
\* has a row of that profile type, the one-to-one either rejects the insert
\* (IntegrityError, the atomic block rolls back) or, if the profile's pk is the
\* user, the save overwrites the row (sharedPk).  An invalid profile form
\* returns from inside the atomic block, which commits form.save().
UserUpdate(a, u, r, valid, c, d, sharedPk) ==
    LET resp == [Resp("user_update", "", a, u) EXCEPT !.status = r]
        kept == ProfilesAfterRoleCheck(u, r)
        keptCareer == IF StudentDeleted(u, r) THEN [career EXCEPT ![u] = NoCareer]
                      ELSE career
        keptDate == IF StudentDeleted(u, r)
                    THEN [enrollment_date EXCEPT ![u] = NoDate]
                    ELSE enrollment_date
    IN  IF ~is_admin(a) THEN
            /\ response' = Resp("user_update", "login_redirect", a, 0)
            /\ UNCHANGED <<userVars, enrollVars, assignVars>>
        ELSE IF role[u] = NoUser THEN
            /\ response' = Resp("user_update", "NotFound", a, u)
            /\ UNCHANGED <<userVars, enrollVars, assignVars>>
        ELSE IF ~valid THEN
            /\ role' = [role EXCEPT ![u] = r]
            /\ profiles' = kept
            /\ career' = keptCareer
            /\ enrollment_date' = keptDate
            /\ CascadeDeletes(u, r)
            /\ response' = [resp EXCEPT !.outcome = "form_invalid"]
            /\ UNCHANGED <<faculty, requests>>
        ELSE IF kept[u][KindOf(r)] > 0 /\ ~sharedPk THEN
            /\ profiles' = kept
            /\ career' = keptCareer
            /\ enrollment_date' = keptDate
            /\ CascadeDeletes(u, r)
            /\ response' = [resp EXCEPT !.outcome = "error"]
            /\ UNCHANGED <<role, faculty, requests>>
        ELSE
            /\ role' = [role EXCEPT ![u] = r]
            /\ profiles' = [kept EXCEPT ![u][KindOf(r)] = IF @ > 0 THEN @ ELSE 1]
            /\ career' = [keptCareer EXCEPT ![u] = IF r = "STUDENT" THEN c ELSE NoCareer]
            /\ enrollment_date' = [keptDate EXCEPT
                                     ![u] = IF r = "STUDENT" THEN d ELSE NoDate]
            /\ CascadeDeletes(u, r)
            /\ response' = [resp EXCEPT !.outcome = "updated"]
            /\ UNCHANGED <<faculty, requests>>

\* A deployment with its first administrator (user 1) and nothing else.
InitUsers ==
    /\ role = [u \in Users |-> IF u = 1 THEN "ADMIN" ELSE NoUser]
    /\ profiles = [u \in Users |-> [k \in Kinds |->
                     IF u = 1 /\ k = "Administrator" THEN 1 ELSE 0]]
    /\ career = [u \in Users |-> NoCareer]
    /\ enrollment_date = [u \in Users |-> NoDate]
    /\ faculty = InitFaculty
    /\ requests = NoRequests
    /\ inscriptions = [s \in Users |-> [m \in Subjects |-> 0]]
    /\ grades = [s \in Users |-> [m \in Subjects |-> <<>>]]
    /\ finalInscriptions = [s \in Users |-> [f \in Finals |-> 0]]
    /\ subjectProfessors = [m \in Subjects |-> {}]
    /\ finalProfessors = [f \in Finals |-> {}]
    /\ response = NoResponse

\* The career a profile form names matters only for a student profile; a
\* request that stops at the admin gate is drawn once per user.
FormCareers(r) == IF r = "STUDENT" THEN Careers \cup {NoCareer} ELSE {NoCareer}
FormDates(r) == IF r = "STUDENT" THEN Dates \cup {NoDate} ELSE {NoDate}

NextUsers ==
    \/ \E a \in Users :
         \E r \in (IF is_admin(a) THEN Roles ELSE {"ADMIN"}),
            valid \in (IF is_admin(a) THEN BOOLEAN ELSE {FALSE}) :
         \E c \in FormCareers(r), d \in FormDates(r) :
           /\ NextUserPk <= MaxAccounts
           /\ NextUserPk \in Users
           /\ UserCreate(a, r, valid, c, d)
    \/ \E a \in Users :
         \E u \in (IF is_admin(a) THEN Users ELSE {1}),
            r \in (IF is_admin(a) THEN Roles ELSE {"ADMIN"}),
            valid \in (IF is_admin(a) THEN BOOLEAN ELSE {FALSE}),
            sharedPk \in (IF is_admin(a) THEN BOOLEAN ELSE {FALSE}) :
         \E c \in FormCareers(r), d \in FormDates(r) :
           UserUpdate(a, u, r, valid, c, d, sharedPk)

SpecUsers == InitUsers /\ [][NextUsers]_vars

\* ------------------------------------------------------- student file

\* What a Python call hands back: a value, or an exception it lets through.
None == [none |-> TRUE]
Returned(v) == [raised |-> "", value |-> v]
Raised(e) == [raised |-> e, value |-> None]

\* enrollment_date.strftime("%d/%m/%Y"): day, month, year.
strftime(date) == <<date[3], date[2], date[1]>>

\* The student_id a URL can carry: the Student row of user u has
\* student_id u, and 0 is the id of no row.
StudentIds == 0..NumUsers
StudentExists(student_id) ==
    student_id \in Users /\ HasProfile(student_id, "Student")

\* StudentFileService.get_student_file_data(student_id): the only exception
\* caught is Student.DoesNotExist; reading .faculty of no career, .name of
\* no faculty or .strftime of no date raises AttributeError.
get_student_file_data(student_id) ==
    IF ~StudentExists(student_id) THEN Returned(None)
    ELSE IF career[student_id] = NoCareer THEN Raised("AttributeError")
    ELSE IF faculty[career[student_id]] = NoFaculty THEN Raised("AttributeError")
    ELSE IF enrollment_date[student_id] = NoDate THEN Raised("AttributeError")
    ELSE Returned([nro_legajo |-> student_id,
                   apellido_nombre |-> student_id,
                   dni |-> student_id,
                   facultad_nombre |-> faculty[career[student_id]],
                   carrera_nombre |-> career[student_id],
                   fecha_inscripcion |-> strftime(enrollment_date[student_id])])

\* Who sends a request: a logged-in user, or nobody logged in.
Anonymous == 0
Requesters == Users \cup {Anonymous}

\* The guard StudentFileDocxView and StudentFileJSONView put before get():
\* none (plain View classes, no decorator, no mixin, no check of request.user).
StudentFileGate(who) == TRUE

\* StudentFileDocxView.get(request, student_id): template is
\* doc_path.exists(), renders whether DocxTemplate renders and saves.  An
\* exception of the service is raised before the try block and leaves the
\* view (the request ends with a server error).
StudentFileDocx(who, student_id, template, renders) ==
    LET student_data == get_student_file_data(student_id)
        r == [Resp("student_file_docx", "", who, student_id)
                EXCEPT !.data = student_data]
    IN  /\ response' =
             IF ~StudentFileGate(who) THEN Resp("student_file_docx", "login_redirect", who, 0)
             ELSE IF student_data.raised # "" THEN [r EXCEPT !.outcome = "server_error"]
             ELSE IF student_data.value = None THEN [r EXCEPT !.outcome = "NotFound"]
             ELSE IF ~template THEN [r EXCEPT !.outcome = "no_template"]
             ELSE IF renders THEN [r EXCEPT !.outcome = "document"]
             ELSE [r EXCEPT !.outcome = "render_error"]
        /\ UNCHANGED <<userVars, enrollVars, assignVars>>

\* StudentFileJSONView.get(request, student_id): 404 with an error object
\* when the service returns None, the data as JSON otherwise.
StudentFileJSON(who, student_id) ==
    LET student_data == get_student_file_data(student_id)
        r == [Resp("student_file_json", "", who, student_id)
                EXCEPT !.data = student_data]
    IN  /\ response' =
             IF ~StudentFileGate(who) THEN Resp("student_file_json", "login_redirect", who, 0)
             ELSE IF student_data.raised # "" THEN [r EXCEPT !.outcome = "server_error"]
             ELSE IF student_data.value = None THEN [r EXCEPT !.outcome = "NotFound"]
             ELSE [r EXCEPT !.outcome = "json"]
        /\ UNCHANGED <<userVars, enrollVars, assignVars>>

\* Student rows as they can stand: each student's career and enrollment date
\* set or not, each career's faculty set or not.
InitFile ==
    /\ role = [u \in Users |-> InitRole(u)]
    /\ profiles = [u \in Users |-> [k \in Kinds |->
                     IF k = KindOf(InitRole(u)) THEN 1 ELSE 0]]
    /\ career \in [Users -> Careers \cup {NoCareer}]
    /\ \A u \in Users : InitRole(u) # "STUDENT" => career[u] = NoCareer
    /\ enrollment_date \in [Users -> Dates \cup {NoDate}]
    /\ \A u \in Users : InitRole(u) # "STUDENT" => enrollment_date[u] = NoDate
    /\ faculty \in [Careers -> Faculties \cup {NoFaculty}]
    /\ requests = NoRequests
    /\ inscriptions = [s \in Users |-> [m \in Subjects |-> 0]]
    /\ grades = [s \in Users |-> [m \in Subjects |-> <<>>]]
    /\ finalInscriptions = [s \in Users |-> [f \in Finals |-> 0]]
    /\ subjectProfessors = [m \in Subjects |-> {}]
    /\ finalProfessors = [f \in Finals |-> {}]
    /\ response = NoResponse

\* What the template and the renderer do is read only once the service has
\* returned a student's data.
NextFile ==
    \/ \E who \in Requesters, student_id \in StudentIds :
         \E template \in (IF get_student_file_data(student_id).raised = ""
                             /\ get_student_file_data(student_id).value # None
                          THEN BOOLEAN ELSE {TRUE}) :
           \E renders \in (IF template THEN BOOLEAN ELSE {TRUE}) :
             StudentFileDocx(who, student_id, template, renders)
    \/ \E who \in Requesters, student_id \in StudentIds :
         StudentFileJSON(who, student_id)

SpecFile == InitFile /\ [][NextFile]_vars

\* --------------------------------------------------------- specifications

\* The statuses update_status may leave on row i of (s, m) when the form
\* submits newStatus: any, and it is only drawn when update_status runs.
GradeEditRecomputed(s, m, i, newStatus) ==
    IF i <= Len(grades[s][m]) /\ ~StatusWasChanged(grades[s][m][i], newStatus)
    THEN Statuses ELSE {newStatus}

\* Requests of students and professors, each handler run to its response.
\* A request that stops at its gate is drawn once per user: what it carries
\* is never read.
Next ==
    \/ \E u \in Users :
         \E code \in (IF StudentGate(u) = "" THEN SubjectCodes ELSE {0}),
            method \in (IF StudentGate(u) = "" THEN Methods ELSE {"GET"}) :
           SubjectInscribe(u, code, method)
    \/ \E u \in Users :
         \E id \in (IF StudentGate(u) = "" THEN FinalIds ELSE {0}),
            method \in (IF StudentGate(u) = "" THEN Methods ELSE {"GET"}) :
           FinalExamInscribe(u, id, method)
    \/ \E p \in Users :
         \E code \in (IF ProfessorGate(p) = "" THEN SubjectCodes ELSE {0}) :
           GradeList(p, code)
    \/ \E p \in Users :
         \E s \in (IF is_professor(p) THEN Users ELSE {1}),
            m \in (IF is_professor(p) THEN Subjects ELSE {1}) :
           \E i \in 1..(IF Len(grades[s][m]) = 0 THEN 1 ELSE Len(grades[s][m])) :
             \/ \E method \in Methods, valid \in BOOLEAN :
                  /\ ~(method = "POST" /\ valid)
                  /\ GradeEdit(p, s, m, i, method, valid, "low", Unset, Unset)
             \/ \E newScore \in Scores, newStatus \in Statuses :
                  \E recomputed \in GradeEditRecomputed(s, m, i, newStatus) :
                    GradeEdit(p, s, m, i, "POST", TRUE, newScore, newStatus, recomputed)

Spec == InitEnroll /\ [][Next]_vars

\* The same requests, where a subject_inscribe request may also end between
\* its two writes.
NextInterrupt ==
    \/ Next
    \/ \E u \in Users, code \in SubjectCodes : SubjectInscribeInterrupted(u, code)

SpecInterrupt == InitEnroll /\ [][NextInterrupt]_vars

\* subject_inscribe and grade_list requests served at the same time, a
\* worker taking its next request when it has answered; a subject_inscribe
\* request may also end between its two writes.
NextGradeRace ==
    \/ \E w \in Workers, u \in Users :
         \E code \in (IF StudentGate(u) = "" THEN SubjectCodes ELSE {0}),
            method \in (IF StudentGate(u) = "" THEN Methods ELSE {"GET"}) :
           InscribeBegin(w, u, code, method)
    \/ \E w \in Workers : GradeLookup(w)
    \/ \E w \in Workers : GradeCreate(w)
    \/ \E w \in Workers, p \in Users :
         \E code \in (IF ProfessorGate(p) = "" THEN SubjectCodes ELSE {0}) :
           GradeListRead(w, p, code)
    \/ \E w \in Workers : GradeListCreate(w)
    \/ \E u \in Users, code \in SubjectCodes : SubjectInscribeInterrupted(u, code)

SpecGradeRace == InitEnroll /\ [][NextGradeRace]_vars

\* Grade rows as grade_edit can meet them: a Grade for each student and
\* subject of the student's career, the student inscribed in the subject or
\* no longer, the professor (user 1) assigned to the first subject or not.
InitGradeEdit ==
    /\ role = [u \in Users |-> InitRole(u)]
    /\ profiles = [u \in Users |-> [k \in Kinds |->
                     IF k = KindOf(InitRole(u)) THEN 1 ELSE 0]]
    /\ career = [u \in Users |-> InitCareer(u)]
    /\ enrollment_date = [u \in Users |-> InitDate(u)]
    /\ faculty = InitFaculty
    /\ requests = NoRequests
    /\ inscriptions \in [Users -> [Subjects -> {0, 1}]]
    /\ \A s \in Users, m \in Subjects :
         inscriptions[s][m] = 1 => SubjectInCareer(m, InitCareer(s)) = m
    /\ grades = [s \in Users |-> [m \in Subjects |->
                   IF SubjectInCareer(m, InitCareer(s)) = m
                   THEN <<NewGrade>> ELSE <<>>]]
    /\ finalInscriptions = [s \in Users |-> [f \in Finals |-> 0]]
    /\ \E assigned \in SUBSET {1} :
         subjectProfessors = [m \in Subjects |-> IF m = 1 THEN assigned ELSE {}]
    /\ finalProfessors = [f \in Finals |-> {}]
    /\ response = NoResponse

\* grade_edit requests, the form's fields drawn when the form is valid.
NextGradeEdit ==
    \E p \in Users :
      \E s \in (IF is_professor(p) THEN Users ELSE {1}),
         m \in (IF is_professor(p) THEN Subjects ELSE {1}) :
        \E i \in 1..(IF Len(grades[s][m]) = 0 THEN 1 ELSE Len(grades[s][m])) :
          \/ \E method \in Methods, valid \in BOOLEAN :
               /\ ~(method = "POST" /\ valid)
               /\ GradeEdit(p, s, m, i, method, valid, "low", Unset, Unset)
          \/ \E newScore \in Scores, newStatus \in Statuses :
               \E recomputed \in GradeEditRecomputed(s, m, i, newStatus) :
                 GradeEdit(p, s, m, i, "POST", TRUE, newScore, newStatus, recomputed)

SpecGradeEdit == InitGradeEdit /\ [][NextGradeEdit]_vars

\* One student (the first) inscribing, enrolling in finals and opening the
\* dashboard while the professors list and edit that student's grades:
\* inscription and roster step by step, the other requests each run to its
\* response.  Requests of the other students touch other rows.
FirstStudent ==
    CHOOSE u \in Users : /\ InitRole(u) = "STUDENT"
                         /\ \A v \in Users : InitRole(v) = "STUDENT" => u <= v

NextDashboard ==
    \/ \E w \in Workers, code \in SubjectCodes, method \in Methods :
         InscribeBegin(w, FirstStudent, code, method)
    \/ \E w \in Workers : GradeLookup(w)
    \/ \E w \in Workers : GradeCreate(w)
    \/ \E w \in Workers, p \in Users :
         \E code \in (IF ProfessorGate(p) = "" THEN SubjectCodes ELSE {0}) :
           GradeListRead(w, p, code)
    \/ \E w \in Workers : GradeListCreate(w)
    \/ \E p \in Users, m \in Subjects :
         \E i \in 1..Len(grades[FirstStudent][m]), newStatus \in Statuses :
           \E recomputed \in GradeEditRecomputed(FirstStudent, m, i, newStatus) :
             /\ is_professor(p)
             /\ GradeEdit(p, FirstStudent, m, i, "POST", TRUE, "low", newStatus, recomputed)
    \/ \E id \in FinalIds, method \in Methods :
         FinalExamInscribe(FirstStudent, id, method)
    \/ StudentDashboard(FirstStudent)

SpecDashboard == InitEnroll /\ [][NextDashboard]_vars

\* ------------------------------------------------------------- claims

\* The subject of the student's career a code names, from the catalogue.
CodeInCareerOf(u, code) ==
    code \in Subjects /\ career[u] # NoCareer /\ SubjectCareer(code) = career[u]

FinalInCareerOf(u, id) ==
    id \in Finals /\ career[u] # NoCareer /\ SubjectCareer(FinalSubject(id)) = career[u]

IsStudentUser(u) == role[u] = "STUDENT" /\ profiles[u]["Student"] > 0

\* C1 (state part): a subject_inscribe POST that answered leaves exactly one
\* SubjectInscription row and exactly one Grade row for its (student, subject).
C1_OneRowEach ==
    (response.op = "subject_inscribe" /\ response.outcome \in {"created", "already"})
    => /\ inscriptions[response.who][response.what] = 1
       /\ Len(grades[response.who][response.what]) = 1

\* C1 (step part): the request of a student for a subject of their career is
\* never an error; it reports "created" exactly when no inscription existed
\* before it, and a call that reports "already inscribed" writes nothing.
C1_FirstCreatesLaterNoOp ==
    response'.op = "subject_inscribe" =>
      LET u == response'.who
          code == response'.what
      IN  /\ (IsStudentUser(u) /\ CodeInCareerOf(u, code))
               => response'.outcome \in {"created", "already", "confirm_page"}
          /\ response'.outcome = "created" => inscriptions[u][code] = 0
          /\ response'.outcome = "already"
               => /\ inscriptions[u][code] > 0
                  /\ UNCHANGED <<inscriptions, grades, finalInscriptions>>

\* C1: after any number (>= 1) of subject_inscribe POSTs for a (student,
\* subject) pair there is exactly one SubjectInscription and exactly one Grade
\* row for it; the first call reports "created", every later call is a no-op
\* that reports "already inscribed" and is never an error.
C1_SubjectInscribeIdempotent ==
    []C1_OneRowEach /\ [][C1_FirstCreatesLaterNoOp]_vars

\* C1 witness: a repeated POST has answered "already inscribed".
C1_Witness ==
    /\ response.op = "subject_inscribe"
    /\ response.outcome = "already"
    /\ inscriptions[response.who][response.what] = 1
    /\ Len(grades[response.who][response.what]) = 1

\* C2 (state part): at most one FinalExamInscription row per (student, final).
C2_AtMostOneRow ==
    \A s \in Users, f \in Finals : finalInscriptions[s][f] <= 1

\* C2 (step part): a FinalExamInscription row appears only when the student's
\* most recent Grade for the final's subject exists and is REGULAR as the
\* request runs; otherwise the request ends in IneligibleState and writes
\* nothing.
C2_OnlyWhenRegular ==
    /\ \A s \in Users, f \in Finals :
         finalInscriptions'[s][f] > finalInscriptions[s][f]
           => /\ Len(grades[s][FinalSubject(f)]) > 0
              /\ grades[s][FinalSubject(f)][Len(grades[s][FinalSubject(f)])].status
                   = "REGULAR"
    /\ response'.op = "final_exam_inscribe" =>
         LET u == response'.who
             f == response'.what
         IN  (IsStudentUser(u) /\ FinalInCareerOf(u, f))
               => LET rows == grades[u][FinalSubject(f)]
                      regular == Len(rows) > 0 /\ rows[Len(rows)].status = "REGULAR"
                  IN  /\ ~regular => /\ response'.outcome = "IneligibleState"
                                     /\ UNCHANGED <<inscriptions, grades, finalInscriptions>>
                      /\ regular => response'.outcome \in {"inscribed", "confirm_page"}
                      /\ response'.outcome = "inscribed" => finalInscriptions'[u][f] = 1

\* C2: final_exam_inscribe creates a FinalExamInscription only if the
\* student's most recent Grade for the final's subject exists and is REGULAR
\* at the moment of the request; with no Grade or another status it ends in
\* IneligibleState and creates nothing; with REGULAR, repeated POSTs leave
\* exactly one FinalExamInscription for the pair.
C2_FinalOnlyWhenRegular ==
    []C2_AtMostOneRow /\ [][C2_OnlyWhenRegular]_vars

\* C2 witness: a student with a REGULAR grade has been inscribed to a final.
C2_Witness ==
    /\ response.op = "final_exam_inscribe"
    /\ response.outcome = "inscribed"
    /\ finalInscriptions[response.who][response.what] = 1
    /\ LatestGrade(response.who, FinalSubject(response.what)).status = "REGULAR"

\* C5 (step part): a grade_list run creates one Grade with unset status for
\* exactly the students inscribed in the subject without a Grade row, and
\* leaves every other Grade row as it was; a second run right after the
\* first, on the same subject, creates nothing.
C5_BackfillStep ==
    (response'.op = "grade_list" /\ response'.outcome = "listed") =>
      LET m == response'.what
          missing == {s \in Users : inscriptions[s][m] > 0 /\ Len(grades[s][m]) = 0}
      IN  /\ response'.created = missing
          /\ \A s \in Users, k \in Subjects :
               grades'[s][k] =
                 IF k = m /\ s \in missing
                 THEN <<[score |-> "low", status |-> "UNSET"]>>
                 ELSE grades[s][k]
          /\ UNCHANGED <<inscriptions, finalInscriptions>>
          /\ (response.op = "grade_list" /\ response.outcome = "listed"
                /\ response.what = m)
               => (response'.created = {} /\ grades' = grades)

\* C5: grade_list creates a Grade with unset status for exactly the students
\* that have a SubjectInscription in the subject and no Grade row for it, and
\* changes no existing Grade; run twice in a row on the same subject, each
\* missing Grade is created exactly once in total.
C5_BackfillExactlyMissing == [][C5_BackfillStep]_vars

\* C5 witness: a roster view has backfilled the Grades of two students.
C5_Witness ==
    /\ response.op = "grade_list"
    /\ Cardinality(response.created) >= 2
    /\ \A s \in response.created : Len(grades[s][response.what]) = 1

\* C8: in every reachable store state, every SubjectInscription has a Grade
\* row for the same (student, subject).
C8_InscriptionHasGrade ==
    \A s \in Users, m \in Subjects :
      inscriptions[s][m] > 0 => Len(grades[s][m]) > 0

\* C9 (step part): on a valid grade_edit POST, update_status is skipped when
\* the submitted status differs from the stored one, and the submitted status
\* is then stored verbatim; otherwise update_status runs exactly once.  The
\* other submitted fields are saved either way.
C9_RecomputeStep ==
    (response'.op = "grade_edit" /\ response'.outcome = "saved") =>
      LET s == response'.student
          m == response'.what
          i == response'.row
          statusEdited == response'.status # grades[s][m][i].status
      IN  /\ statusEdited => /\ response'.recomputed = 0
                             /\ grades'[s][m][i].status = response'.status
          /\ ~statusEdited => response'.recomputed = 1
          /\ response'.recomputed \in {0, 1}

\* C9: on a valid grade_edit POST the status recomputation is skipped if and
\* only if the status field is among the fields the edit changed: an edited
\* status is stored verbatim, and otherwise update_status is invoked exactly
\* once on the saved grade.
C9_RecomputeIffStatusNotEdited == [][C9_RecomputeStep]_vars

\* C9 witness: an edit that left the status field alone was saved and
\* update_status ran, leaving a status other than the submitted one.
C9_Witness ==
    /\ response.op = "grade_edit"
    /\ response.outcome = "saved"
    /\ response.recomputed = 1
    /\ grades[response.student][response.what][response.row].status # response.status

\* C10 (step part): every SubjectInscription, Grade and FinalExamInscription
\* row a request creates pairs a student with a subject of the student's
\* career; a subject code or final outside that career ends in NotFound and
\* writes nothing.
C10_InsideCareerStep ==
    /\ \A s \in Users, m \in Subjects :
         (inscriptions'[s][m] > inscriptions[s][m] \/ Len(grades'[s][m]) > Len(grades[s][m]))
           => (career[s] # NoCareer /\ SubjectCareer(m) = career[s])
    /\ \A s \in Users, f \in Finals :
         finalInscriptions'[s][f] > finalInscriptions[s][f]
           => (career[s] # NoCareer /\ SubjectCareer(FinalSubject(f)) = career[s])
    /\ (response'.op = "subject_inscribe" /\ IsStudentUser(response'.who)
          /\ ~CodeInCareerOf(response'.who, response'.what))
         => (response'.outcome = "NotFound" /\ UNCHANGED enrollVars)
    /\ (response'.op = "final_exam_inscribe" /\ IsStudentUser(response'.who)
          /\ ~FinalInCareerOf(response'.who, response'.what))
         => (response'.outcome = "NotFound" /\ UNCHANGED enrollVars)

\* C10: a student can only be inscribed inside their own career:
\* subject_inscribe for a code not in the student's career and
\* final_exam_inscribe for a final whose subject is not in it end in NotFound
\* and create nothing, and every inscription created pairs a student with a
\* subject whose career is the student's career at creation time.
C10_OnlyInsideOwnCareer == [][C10_InsideCareerStep]_vars

\* C10 witness: a student holding an inscription asked for a subject that
\* exists in another career and got NotFound.
C10_Witness ==
    /\ response.op = "subject_inscribe"
    /\ response.outcome = "NotFound"
    /\ response.what \in Subjects
    /\ \E m \in Subjects : inscriptions[response.who][m] = 1

\* C3 (step part): after a POST the entity's professors are the requested
\* ones.
C3_SyncStep ==
    /\ (response'.op = "assign_subject_professors"
          /\ response'.outcome \in {"updated", "no_changes"})
         => subjectProfessors'[response'.what] = response'.requested
    /\ (response'.op = "assign_final_professors"
          /\ response'.outcome \in {"updated", "no_changes"})
         => finalProfessors'[response'.what] = response'.requested

\* C3: a POST to assign_subject_professors (and to assign_final_professors)
\* leaves the entity's professor set exactly equal to the requested set, for
\* every current set and every requested set as the form sends it (strings
\* against stored pks); a second POST with the same set changes nothing.
C3_FinalSetIsRequested == [][C3_SyncStep]_vars

\* C4 (step part): "updated" goes with a changed set, "no changes" with a
\* requested set equal to the current one.
C4_ReportStep ==
    /\ response'.op = "assign_subject_professors" =>
         /\ response'.outcome = "updated"
              <=> (response'.what \in Subjects
                     /\ subjectProfessors'[response'.what]
                          # subjectProfessors[response'.what])
         /\ response'.outcome \in {"updated", "no_changes"} =>
              (response'.outcome = "no_changes"
                 <=> response'.requested = subjectProfessors[response'.what])
    /\ response'.op = "assign_final_professors" =>
         /\ response'.outcome = "updated"
              <=> (response'.what \in Finals
                     /\ finalProfessors'[response'.what]
                          # finalProfessors[response'.what])
         /\ response'.outcome \in {"updated", "no_changes"} =>
              (response'.outcome = "no_changes"
                 <=> response'.requested = finalProfessors[response'.what])

\* C4: the assignment views report "updated" if and only if the professor set
\* after the POST differs from the set before it, and "no changes" exactly
\* when the requested set equals the current set (a non-empty requested set
\* equal to a non-empty current set included).
C4_ReportsUpdatedIffChanged == [][C4_ReportStep]_vars

\* Every user has exactly one profile row, of the type of the user's role.
ProfilesMatchRoles(rl, pf) ==
    \A u \in Users :
      rl[u] # "NONE" =>
        \A k \in Kinds :
          pf[u][k] = (IF (k = "Student" /\ rl[u] = "STUDENT")
                         \/ (k = "Professor" /\ rl[u] = "PROFESSOR")
                         \/ (k = "Administrator" /\ rl[u] = "ADMIN")
                      THEN 1 ELSE 0)

\* C6 (step part): a successful user create or update takes a store where
\* every user has exactly the profile of their role to a store of the same
\* kind.
C6_SuccessKeepsOneProfile ==
    (/\ response'.op \in {"user_create", "user_update"}
     /\ response'.outcome \in {"created", "updated"}
     /\ ProfilesMatchRoles(role, profiles))
      => ProfilesMatchRoles(role', profiles')

\* C6: after any sequence of successful admin user-create and user-update
\* operations (with or without a role change), every User has exactly one
\* profile record among Student, Professor, Administrator, and it is the one
\* matching the user's role.
C6_OneProfilePerRole ==
    ProfilesMatchRoles(role, profiles) /\ [][C6_SuccessKeepsOneProfile]_vars

\* C6 witness: the first administrator, updated by another one, is now a
\* student with exactly a Student profile.
C6_Witness ==
    /\ response.op = "user_update"
    /\ response.outcome = "updated"
    /\ response.what = 1
    /\ role[1] = "STUDENT"
    /\ profiles[1] = [k \in Kinds |-> IF k = "Student" THEN 1 ELSE 0]

\* C7 (step part): a user update whose profile form fails validation leaves
\* the stored role and the profiles exactly as before the request.
C7_InvalidStep ==
    (response'.op = "user_update" /\ response'.outcome = "form_invalid")
      => (role' = role /\ profiles' = profiles)

\* C7: a user update with a role change is all-or-nothing: when the new
\* profile form fails validation, the stored role and the old profile are
\* left exactly as before the request (never the old profile deleted with the
\* new one absent, never the role flipped).
C7_RoleChangeAllOrNothing == [][C7_InvalidStep]_vars

\* The handlers of the student file routes.
FileOps == {"student_file_docx", "student_file_json"}

\* The six fields of the projection.
FileFields == {"nro_legajo", "apellido_nombre", "dni", "facultad_nombre",
               "carrera_nombre", "fecha_inscripcion"}

C11_FileStep ==
    response'.op \in FileOps =>
        /\ response'.data.raised = ""
        /\ response'.outcome # "server_error"
        /\ IF StudentExists(response'.what)
           THEN /\ response'.data.value # None
                /\ DOMAIN response'.data.value = FileFields
           ELSE /\ response'.data.value = None
                /\ response'.outcome = "NotFound"
        /\ UNCHANGED <<userVars, enrollVars, assignVars>>

\* C11: a student file request never ends in an unhandled exception: with
\* no Student of that id the service returns None and the view answers
\* NotFound (404 / redirect with a message); with a Student, whatever its
\* career, the career's faculty and its enrollment date hold, the service
\* returns the six-field projection; the store is unchanged either way.
C11_StudentFileNeverCrashes == [][C11_FileStep]_vars

\* The role each route is for (urls.py sections Admin, Student, Professor).
RouteRole(op) ==
    IF op \in {"user_create", "user_update", "assign_subject_professors",
               "assign_final_professors"} THEN "ADMIN"
    ELSE IF op \in {"grade_list", "grade_edit"} THEN "PROFESSOR"
    ELSE "STUDENT"

C12_AccessStep ==
    response'.outcome # "login_redirect" =>
        /\ response'.who \in Users
        /\ role[response'.who] = RouteRole(response'.op)

\* C12: every route serves only an authenticated user whose role is the
\* route's (admin, student, professor); any other request, and any request
\* of nobody logged in, is turned away at the gate before the store is read
\* or changed.
C12_RoutesEnforceRole == [][C12_AccessStep]_vars

\* Two requests on the same set, both served.
BothServed(op, id) ==
    \A w \in Workers : /\ requests[w].pc = "done"
                       /\ requests[w].op = op
                       /\ requests[w].what = id

\* C13: two concurrent assignment POSTs on the same subject (or final) lose
\* no update: once both are served, the set is what serving them one after
\* the other, in one order or the other, leaves.
C13_NoLostUpdate ==
    \A op \in AssignOps : \A id \in AssignTargets(op) :
        BothServed(op, id) =>
            \/ AssignedTo(op, id) =
                 AfterSync(requests[2].requested,
                           AfterSync(requests[1].requested, requests[1].current))
            \/ AssignedTo(op, id) =
                 AfterSync(requests[1].requested,
                           AfterSync(requests[2].requested, requests[2].current))

\* C14: at most one Grade row per (student, subject), in every state that
\* interleaved subject_inscribe and grade_list requests can reach.
C14_OneGradePerPair ==
    \A s \in Users, m \in Subjects : Len(grades[s][m]) <= 1

\* A grade_edit response that names the grade it found.
GradeEditFound(r) ==
    r.op = "grade_edit" /\ r.outcome \notin {"login_redirect", "NotFound", "error"}

C15_GuardStep ==
    /\ grades' # grades =>
         /\ GradeEditFound(response')
         /\ response'.who \in subjectProfessors[response'.what]
         /\ inscriptions[response'.student][response'.what] > 0
    /\ GradeEditFound(response') =>
         LET assigned == response'.who \in subjectProfessors[response'.what]
             inscribed == inscriptions[response'.student][response'.what] > 0
         IN  /\ ~assigned => response'.outcome = "not_assigned"
             /\ assigned /\ ~inscribed => response'.outcome = "not_inscribed"
             /\ ~(assigned /\ inscribed) =>
                  /\ grades' = grades
                  /\ response'.recomputed = 0

\* C15: grade_edit changes a Grade only when the requesting professor is
\* assigned to the grade's subject and the grade's student has a
\* SubjectInscription for it; when either fails the request is answered with
\* the error redirect, the Grade keeps its scores and status and
\* update_status is not invoked.
C15_EditOnlyWhenAssignedAndInscribed == [][C15_GuardStep]_vars

\* C15 witness: the assigned professor asked to edit the grade of a student
\* who has no inscription for the subject, and was turned away.
C15_Witness ==
    /\ response.op = "grade_edit"
    /\ response.outcome = "not_inscribed"
    /\ response.who \in subjectProfessors[response.what]
    /\ Len(grades[response.student][response.what]) > 0
    /\ inscriptions[response.student][response.what] = 0

\* C16: the dashboard and final enrollment agree on eligibility: for every
\* student, each final the dashboard lists in eligible_finals is one
\* final_exam_inscribe accepts, and each final of the student's career that
\* final_exam_inscribe accepts is listed.
C16_DashboardAgreesWithInscribe ==
    \A u \in Users : StudentGate(u) = "" =>
        \A f \in Finals :
            /\ f \in eligible_finals(u) => FinalAccepted(u, f)
            /\ FinalAccepted(u, f) => f \in eligible_finals(u)

====
